---- MODULE Spec2Model ----
(***************************************************************************)
(* Model of main_stt.py (Whisper STT Server, hybrid model): the router     *)
(* create_transcription, the fast lane on the hot model guarded by         *)
(* model_lock, and the slow lane that spawns a cold worker per request.    *)
(*                                                                         *)
(* The coroutine create_transcription runs on the event loop: the code     *)
(* between two awaits is one atomic step.  run_transcription_fast_lane and *)
(* run_transcription_slow_lane run on worker threads (asyncio.to_thread),  *)
(* and their steps interleave freely with everything else.                 *)
(***************************************************************************)
EXTENDS Integers, Sequences, FiniteSets, TLC

\* ---------------------------------------------------------------- bounds
NumRequests == 2
NumNames == 2

Requests == 1..NumRequests
\* names tempfile can generate, in the temporary directory and in MODEL_CACHE_DIR
Names == 1..NumNames

\* ------------------------------------------------------------- constants
VENV_PYTHON == "/usr/local/lib/whisper/bin/python"
WHISPER_SCRIPT == "/usr/local/lib/whisper/bin/whisper"

\* temp_path = None, t_audio = None, r_path = None
None == 0

VARIABLES
    whisper_model,  \* "loaded" or "None": outcome of whisper.load_model at import
    model_lock,     \* TRUE iff the threading.Lock is locked
    pc,             \* per request: position of its coroutine / worker thread
    lane,           \* per request: "none", "fast" or "slow"
    temp_path,      \* fast lane local temp_path
    t_audio,        \* slow lane local t_audio
    r_path,         \* slow lane local r_path
    tmpdir,         \* tempfile.gettempdir(): name -> request that created the file, 0 absent
    stagingIn,      \* MODEL_CACHE_DIR/<name>.wav : name -> request that created it, 0 absent
    stagingOut,     \* MODEL_CACHE_DIR/<name>.json: name -> file record
    exc,            \* per request: exception in flight
    res,            \* per request: result mapping obtained by the lane
    response,       \* per request: what the caller received
    uploadOpen,     \* per request: UploadFile not yet closed
    hist,           \* per request: counters of its lock and executor events
    together,       \* every request was awaiting its upload at the same moment
    lateCheck       \* some request tried the lock after the lock had been released

vars == <<whisper_model, model_lock, pc, lane, temp_path, t_audio, r_path,
          tmpdir, stagingIn, stagingOut, exc, res, response, uploadOpen, hist,
          together, lateCheck>>

\* ------------------------------------------------------------ exceptions
NoExc == [type |-> "none", msg |-> <<>>, stderr |-> ""]

OSError(what) == [type |-> "OSError", msg |-> <<what>>, stderr |-> ""]

EngineError == [type |-> "RuntimeError", msg |-> <<"engine failed">>, stderr |-> ""]

\* cmd of run_transcription_slow_lane (language and prompt flags left out)
Cmd(n) == <<VENV_PYTHON, WHISPER_SCRIPT, ToString(n), "--model", "--output_format", "json",
            "--output_dir", "--temperature">>

\* subprocess.CalledProcessError(returncode, cmd, output, stderr)
CalledProcessError(n, text) ==
    [type |-> "CalledProcessError", msg |-> Cmd(n) \o <<"1">>, stderr |-> text]

JSONDecodeError == [type |-> "JSONDecodeError", msg |-> <<"Expecting value">>, stderr |-> ""]

FileNotFoundError(n) ==
    [type |-> "FileNotFoundError", msg |-> <<"No such file or directory", ToString(n)>>, stderr |-> ""]

KeyError == [type |-> "KeyError", msg |-> <<"text">>, stderr |-> ""]

\* str(e): CalledProcessError.__str__ formats cmd and returncode only;
\* every other exception prints its arguments
Str(e) ==
    IF e.type = "CalledProcessError"
    THEN <<"Command">> \o SubSeq(e.msg, 1, Len(e.msg) - 1)
         \o <<"returned non-zero exit status", e.msg[Len(e.msg)]>>
    ELSE e.msg

Contains(s, tok) == \E i \in DOMAIN s : s[i] = tok

\* --------------------------------------------------------------- results
NoRes == [kind |-> "none", audio |-> 0]

\* result mapping with a text field recognised from the audio of request a
Transcript(a) == [kind |-> "mapping", audio |-> a]

\* result mapping that parses but has no text field
NoTextMapping(a) == [kind |-> "notext", audio |-> a]

NoFile == [owner |-> 0, data |-> NoRes, valid |-> FALSE]

NoResponse == [status |-> 0, shape |-> "none", body |-> NoRes, detail |-> <<>>]

\* HTTPException(status_code=500, detail=...)
HTTPException(d) == [status |-> 500, shape |-> "error", body |-> NoRes, detail |-> d]

\* res["text"]: the text of a result mapping that has one
TextField(m) == [kind |-> "text", audio |-> m.audio]

\* Respond that compares response_format with "json": every other value gets the text
RespondJsonOnly(fmt, r0) ==
    IF fmt # "json"
    THEN IF r0.kind = "mapping"
         THEN [status |-> 200, shape |-> "text", body |-> TextField(r0), detail |-> <<>>]
         ELSE HTTPException(Str(KeyError))
    ELSE [status |-> 200, shape |-> "mapping", body |-> r0, detail |-> <<>>]

\* return res["text"] if response_format == "text" else res
Respond(fmt, r0) ==
    IF fmt = "text"
    THEN IF r0.kind = "mapping"
         THEN [status |-> 200, shape |-> "text", body |-> TextField(r0), detail |-> <<>>]
         ELSE HTTPException(Str(KeyError))
    ELSE [status |-> 200, shape |-> "mapping", body |-> r0, detail |-> <<>>]

\* values of the form field response_format
Formats == {"json", "text", "verbose_json"}

\* ------------------------------------------------------------------ Init
\* per request: what has happened to it so far
NoHist == [acquires |-> 0, releases |-> 0, fastRuns |-> 0, slowRuns |-> 0,
           check |-> "none", path |-> "none", cleanup |-> "none"]

Init ==
    /\ whisper_model \in {"loaded", "None"}
    /\ model_lock = FALSE
    /\ pc = [r \in Requests |-> "idle"]
    /\ lane = [r \in Requests |-> "none"]
    /\ temp_path = [r \in Requests |-> None]
    /\ t_audio = [r \in Requests |-> None]
    /\ r_path = [r \in Requests |-> None]
    /\ tmpdir = [n \in Names |-> 0]
    /\ stagingIn = [n \in Names |-> 0]
    /\ stagingOut = [n \in Names |-> NoFile]
    /\ exc = [r \in Requests |-> NoExc]
    /\ res = [r \in Requests |-> NoRes]
    /\ response = [r \in Requests |-> NoResponse]
    /\ uploadOpen = [r \in Requests |-> FALSE]
    /\ hist = [r \in Requests |-> NoHist]
    /\ together = FALSE
    /\ lateCheck = FALSE

Note(r, h) == hist' = [hist EXCEPT ![r] = h]

\* some request has already released the lock
SomeRelease == \E q \in Requests : hist[q].releases > 0

\* the state in which a request finds the lock when it tries it
LockSeen == IF model_lock THEN "held" ELSE "free"

\* with request r entering, every request is awaiting its upload
AllReading(r) == \A q \in Requests \ {r} : pc[q] = "reading"

\* ------------------------------------------------- create_transcription
\* Enter that reroutes a request to the slow lane when the model is not loaded
EnterFallback(r) ==
    /\ pc[r] = "idle"
    /\ IF whisper_model = "None"
       THEN /\ pc' = [pc EXCEPT ![r] = "s_start"]
            /\ lane' = [lane EXCEPT ![r] = "slow"]
       ELSE /\ pc' = [pc EXCEPT ![r] = "reading"]
            /\ UNCHANGED lane
    /\ together' = (whisper_model # "None" /\ AllReading(r))
    /\ uploadOpen' = [uploadOpen EXCEPT ![r] = TRUE]
    /\ UNCHANGED <<whisper_model, model_lock, temp_path, t_audio, r_path, response,
                   tmpdir, stagingIn, stagingOut, exc, res, hist, lateCheck>>

\* lines 135-138: the model check, then await file.read()
Enter(r) ==
    /\ pc[r] = "idle"
    /\ IF whisper_model = "None"
       THEN /\ response' = [response EXCEPT ![r] = HTTPException(<<"Model not loaded.">>)]
            /\ pc' = [pc EXCEPT ![r] = "done"]
            /\ UNCHANGED together
       ELSE /\ pc' = [pc EXCEPT ![r] = "reading"]
            /\ together' = AllReading(r)
            /\ UNCHANGED response
    /\ uploadOpen' = [uploadOpen EXCEPT ![r] = TRUE]
    /\ UNCHANGED <<whisper_model, model_lock, lane, temp_path, t_audio, r_path,
                   tmpdir, stagingIn, stagingOut, exc, res, hist, lateCheck>>

\* a lock that every caller gets
TryAcquireAlways(locked) == TRUE

\* a lock that no caller gets
TryAcquireNever(locked) == FALSE

\* model_lock.acquire(blocking=False): the value returned for a lock in state locked
TryAcquire(locked) == ~locked

\* Route with model_lock.acquire() blocking: the request waits for the lock
RouteBlocking(r, readOk) ==
    /\ pc[r] = "reading"
    /\ IF ~readOk
       THEN /\ response' = [response EXCEPT ![r] = HTTPException(Str(OSError("read")))]
            /\ uploadOpen' = [uploadOpen EXCEPT ![r] = FALSE]
            /\ pc' = [pc EXCEPT ![r] = "done"]
            /\ Note(r, [hist[r] EXCEPT !.check = "unread"])
            /\ UNCHANGED <<model_lock, lane, lateCheck>>
       ELSE /\ ~model_lock
            /\ model_lock' = TRUE
            /\ lane' = [lane EXCEPT ![r] = "fast"]
            /\ pc' = [pc EXCEPT ![r] = "f_start"]
            /\ Note(r, [hist[r] EXCEPT !.acquires = @ + 1, !.check = LockSeen])
            /\ lateCheck' = (lateCheck \/ SomeRelease)
            /\ UNCHANGED <<response, uploadOpen>>
    /\ UNCHANGED <<whisper_model, temp_path, t_audio, r_path, tmpdir, stagingIn,
                   stagingOut, exc, res, together>>


\* lines 138-147 and 150-153, once file.read() has returned (readOk) or raised:
\* the lock is tried without blocking and the chosen lane is handed to a thread
Route(r, readOk) ==
    /\ pc[r] = "reading"
    /\ IF ~readOk
       THEN /\ response' = [response EXCEPT ![r] = HTTPException(Str(OSError("read")))]
            /\ uploadOpen' = [uploadOpen EXCEPT ![r] = FALSE]
            /\ pc' = [pc EXCEPT ![r] = "done"]
            /\ Note(r, [hist[r] EXCEPT !.check = "unread"])
            /\ UNCHANGED <<model_lock, lane, lateCheck>>
       ELSE IF TryAcquire(model_lock)
       THEN /\ model_lock' = TRUE
            /\ lane' = [lane EXCEPT ![r] = "fast"]
            /\ pc' = [pc EXCEPT ![r] = "f_start"]
            /\ Note(r, [hist[r] EXCEPT !.acquires = @ + 1, !.check = LockSeen])
            /\ lateCheck' = (lateCheck \/ SomeRelease)
            /\ UNCHANGED <<response, uploadOpen>>
       ELSE /\ lane' = [lane EXCEPT ![r] = "slow"]
            /\ pc' = [pc EXCEPT ![r] = "s_start"]
            /\ Note(r, [hist[r] EXCEPT !.check = LockSeen])
            /\ lateCheck' = (lateCheck \/ SomeRelease)
            /\ UNCHANGED <<model_lock, response, uploadOpen>>
    /\ UNCHANGED <<whisper_model, temp_path, t_audio, r_path, tmpdir, stagingIn,
                   stagingOut, exc, res, together>>

\* line 138: await file.read() returns the upload or raises
Dispatch(r) == \E readOk \in BOOLEAN : Route(r, readOk)

\* Reply that hides the exception behind a fixed message
ReplyGeneric(r, fmt) ==
    IF exc[r] # NoExc THEN HTTPException(<<"Internal Server Error">>) ELSE Respond(fmt, res[r])

\* lines 149-153: the response built from what the lane returned or raised
Reply(r, fmt) ==
    IF exc[r] # NoExc THEN HTTPException(Str(exc[r])) ELSE Respond(fmt, res[r])

\* FastResume with the release after the await instead of in a finally clause:
\* a fast lane that raised leaves the lock locked
FastResumeNoFinally(r) ==
    /\ pc[r] = "f_returned"
    /\ uploadOpen[r]
    /\ model_lock' = (exc[r] # NoExc)
    /\ \E fmt \in Formats : response' = [response EXCEPT ![r] = Reply(r, fmt)]
    /\ Note(r, [hist[r] EXCEPT !.releases = IF exc[r] # NoExc THEN @ ELSE @ + 1])
    /\ exc' = [exc EXCEPT ![r] = NoExc]
    /\ res' = [res EXCEPT ![r] = NoRes]
    /\ uploadOpen' = [uploadOpen EXCEPT ![r] = FALSE]
    /\ pc' = [pc EXCEPT ![r] = "done"]
    /\ UNCHANGED <<whisper_model, lane, temp_path, t_audio, r_path, tmpdir,
                   stagingIn, stagingOut, together, lateCheck>>

\* FastResume that hands a request whose fast lane raised to the slow lane
FastResumeRetry(r) ==
    /\ pc[r] = "f_returned"
    /\ uploadOpen[r]
    /\ model_lock' = FALSE
    /\ Note(r, [hist[r] EXCEPT !.releases = @ + 1])
    /\ exc' = [exc EXCEPT ![r] = NoExc]
    /\ res' = [res EXCEPT ![r] = NoRes]
    /\ IF exc[r] # NoExc
       THEN /\ lane' = [lane EXCEPT ![r] = "slow"]
            /\ pc' = [pc EXCEPT ![r] = "s_start"]
            /\ UNCHANGED <<response, uploadOpen>>
       ELSE /\ \E fmt \in Formats : response' = [response EXCEPT ![r] = Reply(r, fmt)]
            /\ uploadOpen' = [uploadOpen EXCEPT ![r] = FALSE]
            /\ pc' = [pc EXCEPT ![r] = "done"]
            /\ UNCHANGED lane
    /\ UNCHANGED <<whisper_model, temp_path, t_audio, r_path, tmpdir,
                   stagingIn, stagingOut, together, lateCheck>>

\* lines 142-144, 149-153: the fast lane thread has ended and the coroutine, which
\* closes the upload only as its last statement, resumes; release, then respond
FastResume(r) ==
    /\ pc[r] = "f_returned"
    /\ uploadOpen[r]
    /\ model_lock' = FALSE
    /\ \E fmt \in Formats :
         response' = [response EXCEPT ![r] =
            IF model_lock THEN Reply(r, fmt)
            ELSE HTTPException(<<"release unlocked lock">>)]
    /\ Note(r, [hist[r] EXCEPT !.releases = @ + 1])
    /\ exc' = [exc EXCEPT ![r] = NoExc]
    /\ res' = [res EXCEPT ![r] = NoRes]
    /\ uploadOpen' = [uploadOpen EXCEPT ![r] = FALSE]
    /\ pc' = [pc EXCEPT ![r] = "done"]
    /\ UNCHANGED <<whisper_model, lane, temp_path, t_audio, r_path, tmpdir,
                   stagingIn, stagingOut,
                   together, lateCheck>>

\* SlowResume with the release of the lock on the common path of both lanes
SlowResumeReleasing(r) ==
    /\ pc[r] = "s_returned"
    /\ uploadOpen[r]
    /\ model_lock' = FALSE
    /\ \E fmt \in Formats : response' = [response EXCEPT ![r] = Reply(r, fmt)]
    /\ exc' = [exc EXCEPT ![r] = NoExc]
    /\ res' = [res EXCEPT ![r] = NoRes]
    /\ uploadOpen' = [uploadOpen EXCEPT ![r] = FALSE]
    /\ pc' = [pc EXCEPT ![r] = "done"]
    /\ UNCHANGED <<whisper_model, lane, temp_path, t_audio, r_path, tmpdir,
                   stagingIn, stagingOut, hist, together, lateCheck>>

\* lines 147, 149-153: the slow lane thread has ended and the coroutine resumes;
\* respond
SlowResume(r) ==
    /\ pc[r] = "s_returned"
    /\ uploadOpen[r]
    /\ \E fmt \in Formats : response' = [response EXCEPT ![r] = Reply(r, fmt)]
    /\ exc' = [exc EXCEPT ![r] = NoExc]
    /\ res' = [res EXCEPT ![r] = NoRes]
    /\ uploadOpen' = [uploadOpen EXCEPT ![r] = FALSE]
    /\ pc' = [pc EXCEPT ![r] = "done"]
    /\ UNCHANGED <<whisper_model, model_lock, lane, temp_path, t_audio, r_path, tmpdir,
                   stagingIn, stagingOut, hist,
                   together, lateCheck>>

\* ------------------------------------------ run_transcription_fast_lane
\* tempfile draws a random name that no file of the directory has.  Unused names
\* that are in the same state are interchangeable: the least stands for them all.
FreeTempName(n) ==
    /\ tmpdir[n] = 0
    /\ \A m \in Names : m < n => tmpdir[m] # 0

\* lines 79-83: NamedTemporaryFile(delete=False), write, temp_path = t.name
FastTemp(r) ==
    /\ pc[r] = "f_start"
    /\ \/ /\ exc' = [exc EXCEPT ![r] = OSError("create")]
          /\ pc' = [pc EXCEPT ![r] = "f_finally"]
          /\ Note(r, [hist[r] EXCEPT !.fastRuns = @ + 1, !.path = "create"])
          /\ UNCHANGED <<tmpdir, temp_path>>
       \/ \E n \in Names :
            /\ FreeTempName(n)
            /\ tmpdir' = [tmpdir EXCEPT ![n] = r]
            /\ \/ /\ exc' = [exc EXCEPT ![r] = OSError("write")]
                  /\ pc' = [pc EXCEPT ![r] = "f_finally"]
                  /\ Note(r, [hist[r] EXCEPT !.fastRuns = @ + 1, !.path = "write"])
                  /\ UNCHANGED temp_path
               \/ /\ temp_path' = [temp_path EXCEPT ![r] = n]
                  /\ pc' = [pc EXCEPT ![r] = "f_transcribe"]
                  /\ Note(r, [hist[r] EXCEPT !.fastRuns = @ + 1])
                  /\ UNCHANGED exc
    /\ UNCHANGED <<whisper_model, model_lock, lane, t_audio, r_path, stagingIn,
                   stagingOut, res, response, uploadOpen,
                   together, lateCheck>>

\* line 84: whisper_model.transcribe(temp_path, ...) returns a mapping or raises
FastTranscribe(r) ==
    /\ pc[r] = "f_transcribe"
    /\ \/ /\ res' = [res EXCEPT ![r] = Transcript(tmpdir[temp_path[r]])]
          /\ Note(r, [hist[r] EXCEPT !.path = "success"])
          /\ UNCHANGED exc
       \/ /\ exc' = [exc EXCEPT ![r] = EngineError]
          /\ Note(r, [hist[r] EXCEPT !.path = "engine"])
          /\ UNCHANGED res
    /\ pc' = [pc EXCEPT ![r] = "f_finally"]
    /\ UNCHANGED <<whisper_model, model_lock, lane, temp_path, t_audio, r_path, tmpdir,
                   stagingIn, stagingOut, response, uploadOpen,
                   together, lateCheck>>

\* lines 85-87: if temp_path and os.path.exists(temp_path): os.remove(temp_path);
\* an exception raised by os.remove replaces the pending return value or exception;
\* the function returns and its locals are gone
FastFinally(r) ==
    /\ pc[r] = "f_finally"
    /\ IF temp_path[r] # None /\ tmpdir[temp_path[r]] # 0
       THEN \/ /\ tmpdir' = [tmpdir EXCEPT ![temp_path[r]] = 0]
               /\ Note(r, [hist[r] EXCEPT !.cleanup = "removed"])
               /\ UNCHANGED <<exc, res>>
            \/ /\ exc' = [exc EXCEPT ![r] = OSError("remove")]
               /\ res' = [res EXCEPT ![r] = NoRes]
               /\ Note(r, [hist[r] EXCEPT !.cleanup = "failed"])
               /\ UNCHANGED tmpdir
       ELSE UNCHANGED <<tmpdir, exc, res, hist>>
    /\ temp_path' = [temp_path EXCEPT ![r] = None]
    /\ pc' = [pc EXCEPT ![r] = "f_returned"]
    /\ UNCHANGED <<whisper_model, model_lock, lane, t_audio, r_path,
                   stagingIn, stagingOut, response, uploadOpen,
                   together, lateCheck>>

\* ------------------------------------------ run_transcription_slow_lane
\* a name with no <name>.wav in MODEL_CACHE_DIR; a <name>.json left behind may
\* exist.  Of the unused names with the same <name>.json the least stands for all.
FreeStagingName(n) ==
    /\ stagingIn[n] = 0
    /\ \A m \in Names : m < n => ~(stagingIn[m] = 0 /\ stagingOut[m] = stagingOut[n])

\* lines 91-96: NamedTemporaryFile(delete=False, suffix=".wav", dir=MODEL_CACHE_DIR),
\* write, t_audio = t.name
SlowStage(r) ==
    /\ pc[r] = "s_start"
    /\ \/ /\ exc' = [exc EXCEPT ![r] = OSError("create")]
          /\ pc' = [pc EXCEPT ![r] = "s_finally"]
          /\ Note(r, [hist[r] EXCEPT !.slowRuns = @ + 1, !.path = "create"])
          /\ UNCHANGED <<stagingIn, t_audio>>
       \/ \E n \in Names :
            /\ FreeStagingName(n)
            /\ stagingIn' = [stagingIn EXCEPT ![n] = r]
            /\ \/ /\ exc' = [exc EXCEPT ![r] = OSError("write")]
                  /\ pc' = [pc EXCEPT ![r] = "s_finally"]
                  /\ Note(r, [hist[r] EXCEPT !.slowRuns = @ + 1, !.path = "write"])
                  /\ UNCHANGED t_audio
               \/ /\ t_audio' = [t_audio EXCEPT ![r] = n]
                  /\ pc' = [pc EXCEPT ![r] = "s_spawn"]
                  /\ Note(r, [hist[r] EXCEPT !.slowRuns = @ + 1])
                  /\ UNCHANGED exc
    /\ UNCHANGED <<whisper_model, model_lock, lane, temp_path, r_path, tmpdir,
                   stagingOut, res, response, uploadOpen,
                   together, lateCheck>>

\* lines 98-114: subprocess.run cannot start the worker (binary missing, no
\* permission): OSError
SpawnFails(r) ==
    /\ pc[r] = "s_spawn"
    /\ exc' = [exc EXCEPT ![r] = OSError("spawn")]
    /\ pc' = [pc EXCEPT ![r] = "s_finally"]
    /\ Note(r, [hist[r] EXCEPT !.path = "spawn"])
    /\ UNCHANGED <<whisper_model, model_lock, lane, temp_path, t_audio, r_path, tmpdir,
                   stagingIn, stagingOut, res, response, uploadOpen,
                   together, lateCheck>>

\* StartWorker behind one semaphore for both lanes: a worker starts only while
\* no other transcription, hot or cold, is running
StartWorkerOneAtATime(r) ==
    /\ pc[r] = "s_spawn"
    /\ \A q \in Requests \ {r} : pc[q] \notin {"f_start", "f_transcribe", "f_finally", "s_worker"}
    /\ pc' = [pc EXCEPT ![r] = "s_worker"]
    /\ UNCHANGED <<whisper_model, model_lock, lane, temp_path, t_audio, r_path, tmpdir,
                   stagingIn, stagingOut, exc, res, response, uploadOpen, hist,
                   together, lateCheck>>

\* lines 98-114: build cmd, subprocess.run starts the worker process
StartWorker(r) ==
    /\ pc[r] = "s_spawn"
    /\ pc' = [pc EXCEPT ![r] = "s_worker"]
    /\ UNCHANGED <<whisper_model, model_lock, lane, temp_path, t_audio, r_path, tmpdir,
                   stagingIn, stagingOut, exc, res, response, uploadOpen, hist,
                   together, lateCheck>>

\* lines 98-114: build cmd, subprocess.run starts the worker or fails to
SlowSpawn(r) == SpawnFails(r) \/ StartWorker(r)

\* what the worker may leave at <output_dir>/<stem>.json
WorkerOutputs == {"nothing", "json", "notext", "garbage"}

\* text the worker may print on stderr
Diagnostics == {"worker stderr"}

\* the file the whisper script writes for the audio it read
WorkerFile(r, audio, out) ==
    [owner |-> r,
     data |-> IF out = "json" THEN Transcript(audio)
              ELSE IF out = "notext" THEN NoTextMapping(audio) ELSE NoRes,
     valid |-> out # "garbage"]

\* WorkerExit without check=True: the exit status of the worker is ignored
WorkerExitUnchecked(r) ==
    /\ pc[r] = "s_worker"
    /\ \E out \in WorkerOutputs, code \in {0, 1} :
         /\ stagingOut' = IF out = "nothing" THEN stagingOut
                          ELSE [stagingOut EXCEPT ![t_audio[r]] =
                                   WorkerFile(r, stagingIn[t_audio[r]], out)]
         /\ pc' = [pc EXCEPT ![r] = "s_read"]
         /\ IF code = 0 THEN UNCHANGED hist
            ELSE Note(r, [hist[r] EXCEPT !.path = "nonzero"])
    /\ UNCHANGED <<whisper_model, model_lock, lane, temp_path, t_audio, r_path, tmpdir,
                   stagingIn, exc, res, response, uploadOpen, together, lateCheck>>

\* line 114: subprocess.run(cmd, check=True, capture_output=True, ...) waits for the
\* worker; a non-zero exit status raises CalledProcessError
WorkerExit(r) ==
    /\ pc[r] = "s_worker"
    /\ \E out \in WorkerOutputs, code \in {0, 1}, text \in Diagnostics :
         /\ stagingOut' = IF out = "nothing" THEN stagingOut
                          ELSE [stagingOut EXCEPT ![t_audio[r]] =
                                   WorkerFile(r, stagingIn[t_audio[r]], out)]
         /\ IF code = 0
            THEN /\ pc' = [pc EXCEPT ![r] = "s_read"]
                 /\ UNCHANGED <<exc, hist>>
            ELSE /\ exc' = [exc EXCEPT ![r] = CalledProcessError(t_audio[r], text)]
                 /\ pc' = [pc EXCEPT ![r] = "s_finally"]
                 /\ Note(r, [hist[r] EXCEPT !.path = "nonzero"])
    /\ UNCHANGED <<whisper_model, model_lock, lane, temp_path, t_audio, r_path, tmpdir,
                   stagingIn, res, response, uploadOpen,
                   together, lateCheck>>

\* lines 116-117: the output path has the stem of the input path
OutputName(n) == n

\* lines 116-121: r_path from t_audio, open and json.load
SlowRead(r) ==
    /\ pc[r] = "s_read"
    /\ LET n == OutputName(t_audio[r])
           f == stagingOut[n]
       IN /\ r_path' = [r_path EXCEPT ![r] = n]
          /\ IF f.owner = 0
             THEN /\ exc' = [exc EXCEPT ![r] = FileNotFoundError(n)]
                  /\ Note(r, [hist[r] EXCEPT !.path = "missing"])
                  /\ UNCHANGED res
             ELSE IF ~f.valid
             THEN /\ exc' = [exc EXCEPT ![r] = JSONDecodeError]
                  /\ Note(r, [hist[r] EXCEPT !.path = "malformed"])
                  /\ UNCHANGED res
             ELSE /\ res' = [res EXCEPT ![r] = f.data]
                  /\ Note(r, [hist[r] EXCEPT !.path =
                                 IF f.data.kind = "mapping" THEN "success" ELSE "notext"])
                  /\ UNCHANGED exc
    /\ pc' = [pc EXCEPT ![r] = "s_finally"]
    /\ UNCHANGED <<whisper_model, model_lock, lane, temp_path, t_audio, tmpdir,
                   stagingIn, stagingOut, response, uploadOpen,
                   together, lateCheck>>

\* line 123: if t_audio and os.path.exists(t_audio): os.remove(t_audio); when
\* os.remove raises, line 124 is not executed
SlowFinallyInput(r) ==
    /\ pc[r] = "s_finally"
    /\ IF t_audio[r] # None /\ stagingIn[t_audio[r]] # 0
       THEN \/ /\ stagingIn' = [stagingIn EXCEPT ![t_audio[r]] = 0]
               /\ pc' = [pc EXCEPT ![r] = "s_finally2"]
               /\ Note(r, [hist[r] EXCEPT !.cleanup = "removed"])
               /\ UNCHANGED <<exc, res, t_audio, r_path>>
            \/ /\ exc' = [exc EXCEPT ![r] = OSError("remove")]
               /\ res' = [res EXCEPT ![r] = NoRes]
               /\ Note(r, [hist[r] EXCEPT !.cleanup = "failed"])
               /\ pc' = [pc EXCEPT ![r] = "s_returned"]
               /\ t_audio' = [t_audio EXCEPT ![r] = None]
               /\ r_path' = [r_path EXCEPT ![r] = None]
               /\ UNCHANGED stagingIn
       ELSE /\ pc' = [pc EXCEPT ![r] = "s_finally2"]
            /\ UNCHANGED <<stagingIn, exc, res, t_audio, r_path, hist>>
    /\ UNCHANGED <<whisper_model, model_lock, lane, temp_path, tmpdir,
                   stagingOut, response, uploadOpen,
                   together, lateCheck>>

\* lines 124-125: if r_path and os.path.exists(r_path): os.remove(r_path)
SlowFinallyOutput(r) ==
    /\ pc[r] = "s_finally2"
    /\ IF r_path[r] # None /\ stagingOut[r_path[r]].owner # 0
       THEN \/ /\ stagingOut' = [stagingOut EXCEPT ![r_path[r]] = NoFile]
               /\ UNCHANGED <<exc, res, hist>>
            \/ /\ exc' = [exc EXCEPT ![r] = OSError("remove")]
               /\ res' = [res EXCEPT ![r] = NoRes]
               /\ Note(r, [hist[r] EXCEPT !.cleanup = "failed"])
               /\ UNCHANGED stagingOut
       ELSE UNCHANGED <<stagingOut, exc, res, hist>>
    /\ t_audio' = [t_audio EXCEPT ![r] = None]
    /\ r_path' = [r_path EXCEPT ![r] = None]
    /\ pc' = [pc EXCEPT ![r] = "s_returned"]
    /\ UNCHANGED <<whisper_model, model_lock, lane, temp_path, tmpdir,
                   stagingIn, response, uploadOpen,
                   together, lateCheck>>

\* -------------------------------------------------------- specification
Next ==
    \E r \in Requests :
        \/ Enter(r)
        \/ Dispatch(r)
        \/ FastTemp(r)
        \/ FastTranscribe(r)
        \/ FastFinally(r)
        \/ FastResume(r)
        \/ SlowStage(r)
        \/ SlowSpawn(r)
        \/ WorkerExit(r)
        \/ SlowRead(r)
        \/ SlowFinallyInput(r)
        \/ SlowFinallyOutput(r)
        \/ SlowResume(r)

Spec == Init /\ [][Next]_vars

\* a request that has entered is carried on: the event loop resumes a coroutine
\* whose awaited read or thread has ended, a worker thread runs its function to
\* the end, and the engine call and the worker process terminate
Progress(r) ==
    \/ Dispatch(r)
    \/ FastTemp(r)
    \/ FastTranscribe(r)
    \/ FastFinally(r)
    \/ FastResume(r)
    \/ SlowStage(r)
    \/ SlowSpawn(r)
    \/ WorkerExit(r)
    \/ SlowRead(r)
    \/ SlowFinallyInput(r)
    \/ SlowFinallyOutput(r)
    \/ SlowResume(r)

FairSpec == Spec /\ \A r \in Requests : WF_vars(Progress(r))

\* ------------------------------------- the service with its fast lane taken
\* The state of the service while a request that arrived earlier is inside
\* whisper_model.transcribe: the model is loaded and that request holds the lock.
InitBusy ==
    /\ whisper_model = "loaded"
    /\ model_lock = TRUE
    /\ pc = [r \in Requests |-> "idle"]
    /\ lane = [r \in Requests |-> "none"]
    /\ temp_path = [r \in Requests |-> None]
    /\ t_audio = [r \in Requests |-> None]
    /\ r_path = [r \in Requests |-> None]
    /\ tmpdir = [n \in Names |-> 0]
    /\ stagingIn = [n \in Names |-> 0]
    /\ stagingOut = [n \in Names |-> NoFile]
    /\ exc = [r \in Requests |-> NoExc]
    /\ res = [r \in Requests |-> NoRes]
    /\ response = [r \in Requests |-> NoResponse]
    /\ uploadOpen = [r \in Requests |-> FALSE]
    /\ hist = [r \in Requests |-> NoHist]
    /\ together = FALSE
    /\ lateCheck = FALSE

\* the earlier request is the holder as long as no request of Requests is
EarlierHolds == model_lock /\ \A r \in Requests : pc[r] \notin {"f_start", "f_transcribe", "f_finally", "f_returned"}

\* lines 142-144 for the earlier request: its fast lane ends and it releases the
\* lock; its temporary file is removed
HolderReturns ==
    /\ EarlierHolds
    /\ model_lock' = FALSE
    /\ UNCHANGED <<whisper_model, pc, lane, temp_path, t_audio, r_path, tmpdir,
                   stagingIn, stagingOut, exc, res, response, uploadOpen, hist,
                   together, lateCheck>>

NextBusy == Next \/ HolderReturns

SpecBusy == InitBusy /\ [][NextBusy]_vars

\* ------------------------------------------ the service with cancellation
\* lines 142-144, 147, 150-153 when the task of the request is cancelled while it
\* awaits asyncio.to_thread: CancelledError is raised at the await, "except
\* Exception" does not catch it, the finally clauses release the lock (fast lane)
\* and close the upload, and no response is sent.  A thread cannot be
\* interrupted: the lane function goes on running.
Cancel(r) ==
    /\ pc[r] \in {"f_start", "f_transcribe", "f_finally",
                  "s_start", "s_spawn", "s_worker", "s_read", "s_finally", "s_finally2"}
    /\ uploadOpen[r]
    /\ IF lane[r] = "fast"
       THEN /\ model_lock' = FALSE
            /\ Note(r, [hist[r] EXCEPT !.releases = @ + 1])
       ELSE UNCHANGED <<model_lock, hist>>
    /\ uploadOpen' = [uploadOpen EXCEPT ![r] = FALSE]
    /\ UNCHANGED <<whisper_model, pc, lane, temp_path, t_audio, r_path, tmpdir,
                   stagingIn, stagingOut, exc, res, response, together, lateCheck>>

\* the lane function of a cancelled request returns or raises in its thread:
\* nothing awaits the outcome, it is dropped
ThreadAbandoned(r) ==
    /\ pc[r] \in {"f_returned", "s_returned"}
    /\ ~uploadOpen[r]
    /\ exc' = [exc EXCEPT ![r] = NoExc]
    /\ res' = [res EXCEPT ![r] = NoRes]
    /\ pc' = [pc EXCEPT ![r] = "done"]
    /\ UNCHANGED <<whisper_model, model_lock, lane, temp_path, t_audio, r_path, tmpdir,
                   stagingIn, stagingOut, response, uploadOpen, hist,
                   together, lateCheck>>

NextCancel ==
    \/ Next
    \/ \E r \in Requests : Cancel(r)
    \/ \E r \in Requests : ThreadAbandoned(r)

SpecCancel == Init /\ [][NextCancel]_vars

\* ---------------------------------------------------------------- claims
\* positions at which a thread is inside run_transcription_fast_lane
FastPcs == {"f_start", "f_transcribe", "f_finally"}

\* positions of a request that holds the lock
HolderPcs == FastPcs \cup {"f_returned"}

\* positions at which a thread is inside run_transcription_slow_lane
SlowPcs == {"s_start", "s_spawn", "s_worker", "s_read", "s_finally", "s_finally2"}

\* the request that takes the step
Acts(r) == pc'[r] # pc[r]

\* C1: at most one invocation of run_transcription_fast_lane, and so at most one
\* call of whisper_model.transcribe, is in progress in any reachable state
C1_OneFastLane ==
    /\ Cardinality({r \in Requests : pc[r] \in FastPcs}) <= 1
    /\ Cardinality({r \in Requests : pc[r] = "f_transcribe"}) <= 1

\* a request is inside the engine call while another request is being served
C1_Witness ==
    \E r, q \in Requests :
        /\ pc[r] = "f_transcribe"
        /\ pc[q] \in SlowPcs

\* C2: a request that finds the lock free takes the fast lane, the lock stays
\* locked from its acquire until the fast lane has returned or raised, and the
\* request releases it exactly once afterwards, whether the lane succeeded or not
C2_PermitHeldAndReleasedOnce ==
    \A r \in Requests :
        hist[r].check = "free" =>
            /\ lane[r] = "fast"
            /\ hist[r].acquires = 1
            /\ pc[r] \in HolderPcs \cup {"done"}
            /\ pc[r] \in HolderPcs => model_lock /\ hist[r].releases = 0
            /\ pc[r] = "done" => hist[r].releases = 1

\* one fast lane has ended with a result and another with an exception, both released
C2_Witness ==
    \E r, q \in Requests :
        /\ pc[r] = "done" /\ hist[r].check = "free" /\ hist[r].path = "success"
        /\ pc[q] = "done" /\ hist[q].check = "free" /\ hist[q].path = "engine"
        /\ ~model_lock

\* C3: a request that finds the lock held takes the slow lane; no step of a slow
\* lane request acquires, releases or changes the lock or enters the fast lane,
\* and the lock changes only in steps of a fast lane request
C3_SlowLaneLeavesPermit ==
    [][/\ \A r \in Requests :
            /\ (Acts(r) /\ pc[r] = "reading" /\ model_lock
                    /\ hist'[r].check # "unread") => lane'[r] = "slow"
            /\ (Acts(r) /\ lane'[r] = "slow") =>
                    /\ model_lock' = model_lock
                    /\ hist'[r].acquires = 0
                    /\ hist'[r].releases = 0
                    /\ hist'[r].fastRuns = 0
                    /\ pc'[r] \notin HolderPcs
       /\ model_lock' # model_lock => \E r \in Requests : Acts(r) /\ lane'[r] = "fast"
      ]_vars

\* a slow lane request has been answered while the lock is still held
C3_Witness ==
    \E r, q \in Requests :
        /\ lane[r] = "slow" /\ pc[r] = "done" /\ hist[r].check = "held"
        /\ pc[q] \in HolderPcs /\ model_lock

AllDone == \A r \in Requests : pc[r] = "done"

FastLaneRequests == {r \in Requests : lane[r] = "fast"}

SlowLaneRequests == {r \in Requests : lane[r] = "slow"}

AllTriedLock == \A r \in Requests : hist[r].check \in {"free", "held"}

\* C4 as stated: of the requests launched together while the service is idle
\* (each of them reading its upload), exactly one executes the fast lane and all
\* the others execute the slow lane
C4_Original ==
    (together /\ AllTriedLock /\ AllDone) =>
        /\ Cardinality({r \in Requests : hist[r].fastRuns = 1}) = 1
        /\ Cardinality({r \in Requests : hist[r].slowRuns = 1}) = NumRequests - 1

\* C4 amended: of the requests launched together while the service is idle, when
\* every one has read its upload and tried the lock before any release of the
\* lock, exactly one takes the fast lane and all the others take the slow lane
C4_OneFastRestSlow ==
    (together /\ AllTriedLock /\ ~lateCheck) =>
        /\ Cardinality(FastLaneRequests) = 1
        /\ Cardinality(SlowLaneRequests) = NumRequests - 1
        /\ AllDone =>
              /\ Cardinality({r \in Requests : hist[r].fastRuns = 1}) = 1
              /\ Cardinality({r \in Requests : hist[r].slowRuns = 1}) = NumRequests - 1

\* all requests were launched together, tried the lock before any release and
\* have been answered
C4_Witness ==
    /\ together
    /\ AllTriedLock
    /\ ~lateCheck
    /\ AllDone

NoArtifacts ==
    /\ \A n \in Names : tmpdir[n] = 0 /\ stagingIn[n] = 0 /\ stagingOut[n] = NoFile

\* C5: with the model not loaded every request is answered at once with
\* "Model not loaded.": it never waits, never tries the lock, creates no file
\* and starts no lane; and the model never becomes loaded
C5_EngineAbsentFailsFast ==
    /\ [](whisper_model = "None" =>
            /\ ~model_lock
            /\ NoArtifacts
            /\ \A r \in Requests :
                  /\ pc[r] \in {"idle", "done"}
                  /\ lane[r] = "none"
                  /\ hist[r] = NoHist
                  /\ pc[r] = "done" => response[r] = HTTPException(<<"Model not loaded.">>))
    /\ [][whisper_model = "None" => whisper_model' = "None"]_vars

\* the model is not loaded and every request has been answered
C5_Witness ==
    /\ whisper_model = "None"
    /\ AllDone

\* C6: once a fast lane has ended, by a result, by an exception of the engine or
\* by an I/O error of the write (os.remove itself not failing), no temporary file
\* it created exists
C6_FastLaneTempRemoved ==
    \A r \in Requests :
        (/\ lane[r] = "fast" /\ pc[r] \in {"f_returned", "done"}
         /\ hist[r].path \in {"success", "engine", "write"}
         /\ hist[r].cleanup # "failed") =>
            \A n \in Names : tmpdir[n] # r

\* C7: once a slow lane has ended, on whichever path (os.remove itself not
\* failing), neither an input file it created nor an output file its worker
\* wrote exists in MODEL_CACHE_DIR
C7_SlowLaneStagingRemoved ==
    \A r \in Requests :
        (/\ lane[r] = "slow" /\ pc[r] \in {"s_returned", "done"}
         /\ hist[r].cleanup # "failed") =>
            \A n \in Names : stagingIn[n] # r /\ stagingOut[n].owner # r

\* C8: a request whose worker exited non-zero (os.remove not failing afterwards)
\* is answered with status 500 and a detail that contains what the worker printed
\* on stderr, and its input file is gone
C8_WorkerFailureCarriesStderr ==
    \A r \in Requests :
        (pc[r] = "done" /\ hist[r].path = "nonzero" /\ hist[r].cleanup # "failed") =>
            /\ response[r].status = 500
            /\ \E text \in Diagnostics : Contains(response[r].detail, text)
            /\ \A n \in Names : stagingIn[n] # r

\* C9: a request whose lane obtained a result with a text, and whose cleanup then
\* failed to remove a file, is still answered with the result
C9_CleanupFailureKeepsResult ==
    \A r \in Requests :
        (pc[r] = "done" /\ hist[r].path = "success" /\ hist[r].cleanup = "failed") =>
            response[r].status = 200

\* C10: a request that read its upload runs exactly one lane function exactly
\* once; a request whose upload has been read is never kept waiting for the lock;
\* a request that found the lock held
\* never enters the fast lane, and one that found it free never enters the slow lane
C10_ExactlyOneLaneOnce ==
    \A r \in Requests :
        /\ pc[r] = "reading" => ENABLED Route(r, TRUE)
        /\ hist[r].fastRuns + hist[r].slowRuns <= 1
        /\ hist[r].check = "held" =>
              /\ lane[r] = "slow" /\ hist[r].fastRuns = 0 /\ pc[r] \notin HolderPcs
        /\ hist[r].check = "free" =>
              /\ lane[r] = "fast" /\ hist[r].slowRuns = 0
              /\ pc[r] \notin SlowPcs \cup {"s_returned"}
        /\ (hist[r].check \in {"free", "held"} /\ pc[r] = "done") =>
              hist[r].fastRuns + hist[r].slowRuns = 1

\* a request whose fast lane raised has been answered, the lock is free again,
\* and a request that found the lock held is still in its slow lane
C10_Witness ==
    \E r, q \in Requests :
        /\ pc[r] = "done" /\ hist[r].check = "free" /\ hist[r].path = "engine"
        /\ hist[q].check = "held" /\ pc[q] = "s_worker"
        /\ ~model_lock

\* request q is inside run_transcription_slow_lane
InSlowLane(q) == q \in Requests /\ pc[q] \in SlowPcs

\* the file belongs to a slow lane other than r that has not ended
ForeignLive(r, owner) == owner # r /\ InSlowLane(owner)

\* C11: no step of a slow lane writes, reads or removes a file of MODEL_CACHE_DIR
\* that belongs to another slow lane still in progress
C11_ArtifactsExclusive ==
    [][\A r \in Requests : Acts(r) =>
          /\ \A n \in Names :
                /\ stagingIn'[n] # stagingIn[n] => ~ForeignLive(r, stagingIn[n])
                /\ stagingOut'[n] # stagingOut[n] => ~ForeignLive(r, stagingOut[n].owner)
          /\ pc[r] = "s_read" => ~ForeignLive(r, stagingOut[OutputName(t_audio[r])].owner)
      ]_vars

\* the lane of request r has returned a result mapping that has a text
HoldsResult(r) ==
    pc[r] \in {"f_returned", "s_returned"} /\ exc[r] = NoExc /\ res[r].kind = "mapping"

\* C12: for one and the same result mapping, the answer to response_format=text
\* is the text field of the answer to response_format=json, and every other
\* value of response_format is answered with the whole mapping
C12_TextIsFieldOfJson ==
    \A r \in Requests : HoldsResult(r) =>
        /\ Respond("json", res[r]) =
              [status |-> 200, shape |-> "mapping", body |-> res[r], detail |-> <<>>]
        /\ Respond("text", res[r]).status = 200
        /\ Respond("text", res[r]).body = TextField(Respond("json", res[r]).body)
        /\ Respond("text", res[r]).body # Respond("json", res[r]).body
        /\ \A fmt \in Formats \ {"text"} : Respond(fmt, res[r]) = Respond("json", res[r])

\* one request has been answered with a text and another with a mapping
C12_Witness ==
    \E r, q \in Requests :
        /\ pc[r] = "done" /\ response[r].status = 200 /\ response[r].shape = "text"
        /\ pc[q] = "done" /\ response[q].status = 200 /\ response[q].shape = "mapping"

\* C13: whatever a lane raises (and the KeyError of a mapping without text) is
\* answered once with status 500 and str(e) as detail, without a second run of a
\* lane, and a failed fast lane leaves the lock free for later requests; the only
\* other error answer is "Model not loaded." for a model that never loaded
C13_FailuresBecomeOneError ==
    /\ [][\A r \in Requests : (Acts(r) /\ pc[r] \in {"f_returned", "s_returned"}) =>
             /\ pc'[r] = "done"
             /\ hist'[r].fastRuns = hist[r].fastRuns
             /\ hist'[r].slowRuns = hist[r].slowRuns
             /\ lane[r] = "fast" => ~model_lock'
             /\ exc[r] # NoExc => response'[r] = HTTPException(Str(exc[r]))
             /\ exc[r] = NoExc =>
                   \/ response'[r].status = 200 /\ response'[r].body.audio = res[r].audio
                   \/ /\ res[r].kind = "notext"
                      /\ response'[r] = HTTPException(Str(KeyError))
        ]_vars
    /\ [](\A r \in Requests : pc[r] = "done" =>
             /\ response[r].status \in {200, 500}
             /\ response[r].status = 500 => response[r].detail # <<>>
             /\ (response[r].detail = <<"Model not loaded.">>) <=> (whisper_model = "None")
             /\ hist[r].fastRuns + hist[r].slowRuns <= 1)

\* a request whose fast lane raised got the engine's message, and a request that
\* arrived later got its result from the fast lane
C13_Witness ==
    \E r, q \in Requests :
        /\ pc[r] = "done" /\ hist[r].path = "engine"
        /\ response[r] = HTTPException(Str(EngineError))
        /\ pc[q] = "done" /\ lane[q] = "fast" /\ response[q].status = 200
        /\ lateCheck

\* C14: a slow lane goes from staging to the worker, from the worker to the read
\* or to the failure, and always through its finally clause before it returns:
\* the worker starts only with the input file written, the output file is read
\* only after the worker exited with status 0, and every branch, a raising read
\* included, goes to the finally clause, which on the branches that read the
\* output file (os.remove not failing) leaves none of the files of the lane
C14_SlowLaneOrder ==
    /\ [](\A r \in Requests :
            (/\ pc[r] = "s_returned"
             /\ hist[r].path \in {"success", "notext", "malformed", "missing"}
             /\ hist[r].cleanup # "failed") =>
                \A n \in Names : stagingIn[n] # r /\ stagingOut[n].owner # r)
    /\ [][\A r \in Requests : Acts(r) =>
          /\ pc'[r] = "s_spawn" =>
                pc[r] = "s_start" /\ t_audio'[r] # None /\ stagingIn'[t_audio'[r]] = r
          /\ pc'[r] = "s_worker" =>
                pc[r] = "s_spawn" /\ t_audio[r] # None /\ stagingIn[t_audio[r]] = r
          /\ pc'[r] = "s_read" =>
                pc[r] = "s_worker" /\ exc'[r] = NoExc /\ hist'[r].path # "nonzero"
          /\ (lane[r] = "slow" /\ res'[r] # res[r] /\ res'[r] # NoRes) => pc[r] = "s_read"
          /\ pc[r] \in {"s_start", "s_spawn", "s_worker"} /\ exc'[r] # NoExc =>
                pc'[r] = "s_finally"
          /\ pc[r] = "s_read" => pc'[r] = "s_finally"
          /\ pc'[r] = "s_finally" => pc[r] \in {"s_start", "s_spawn", "s_worker", "s_read"}
          /\ pc'[r] = "s_finally2" => pc[r] = "s_finally"
          /\ pc'[r] = "s_returned" => pc[r] \in {"s_finally", "s_finally2"}
       ]_vars

\* a slow lane whose read of the output raised has gone through its finally
\* clause, which removed its input file
C14_Witness ==
    \E r \in Requests :
        /\ pc[r] = "s_returned"
        /\ hist[r].path \in {"malformed", "missing"}
        /\ hist[r].cleanup = "removed"
        /\ \A n \in Names : stagingIn[n] # r

\* C15: with every engine call and every worker terminating, every request that
\* has been given a lane is eventually answered with a result or an error (a
\* request is given a lane once and answered once, so from some point on each
\* request either never got a lane or has its answer), and the lock is free
\* whenever no request is between its acquire and its release
C15_AnsweredAndPermitFree ==
    /\ <>[](\A r \in Requests :
               lane[r] = "none" \/ (pc[r] = "done" /\ response[r].status \in {200, 500}))
    /\ []((\A r \in Requests : pc[r] \notin HolderPcs) => ~model_lock)

\* every request has been answered, a fast lane with an error and a slow lane
\* with a result, and the lock is free
C15_Witness ==
    /\ AllDone
    /\ ~model_lock
    /\ \E r, q \in Requests :
          /\ lane[r] = "fast" /\ response[r].status = 500
          /\ lane[q] = "slow" /\ response[q].status = 200

\* requests whose worker process is running
RunningWorkers == {r \in Requests : pc[r] = "s_worker"}

C17_PermitHeldWhileFastLaneRuns ==
    \A r \in Requests : pc[r] \in FastPcs => model_lock

\* C18: the mapping a slow lane returns, and the response built from it, is the
\* output its own worker wrote for its own audio, never a file produced for
\* another request
C18_ResultIsOwnWorkersOutput ==
    \A r \in Requests :
        lane[r] = "slow" =>
            /\ res[r] # NoRes => res[r].audio = r
            /\ response[r].status = 200 => response[r].body.audio = r
====
